---- MODULE Spec2Model ----
(***************************************************************************)
(* Model of py-spy's web viewer backend (src/web_viewer/mod.rs): the       *)
(* WebViewer handle (increment / notify_exitted / drop), the mpsc queue,   *)
(* the update_data worker, the mutex-guarded Data store, the http_handler  *)
(* and the flame aggregation (FrameNode::insert / aggregate_traces).       *)
(***************************************************************************)
EXTENDS Integers, Sequences, FiniteSets, TLC

(***************************************************************************)
(* Bounds of the model.                                                    *)
(***************************************************************************)
MaxBatches == 2      \* batches the handle submits before it is released
MaxQueryBatches == 3 \* the same, in the runs that follow a querying client
MaxTick == 3         \* elapsed times are 50 ms * (0 .. MaxTick)
MaxSlice == 3        \* longest trace slice handed to the aggregation alone
MaxLiveBatches == 1  \* batches submitted in the runs checked under fair scheduling

Times == {50 * k : k \in 0 .. MaxTick}

(***************************************************************************)
(* Frames and stack traces (stack_trace::Frame, stack_trace::StackTrace).  *)
(* An Option is a sequence of length 0 or 1.                               *)
(***************************************************************************)
None == <<>>
Some(x) == <<x>>

Frame(name, filename, short_filename, line) ==
    [name |-> name, filename |-> filename, short_filename |-> short_filename,
     module |-> None, line |-> line]

StackTrace(thread_id, active, owns_gil, frames) ==
    [thread_id |-> thread_id, active |-> active, owns_gil |-> owns_gil,
     frames |-> frames]

FMain == Frame("main", "/app/main.py", Some("main.py"), 1)
FWork == Frame("work", "/app/main.py", Some("main.py"), 7)
FWork9 == Frame("work", "/app/main.py", Some("main.py"), 9)
FWait == Frame("wait", "threading.py", None, 0)

\* frames are stored innermost first, outermost (caller) last
TraceA == StackTrace(1, TRUE, TRUE, <<FWork, FMain>>)
TraceB == StackTrace(2, TRUE, FALSE, <<FWork9, FMain>>)
TraceC == StackTrace(3, FALSE, FALSE, <<FWait>>)
TraceAIdle == StackTrace(1, FALSE, FALSE, <<FWait, FMain>>)
TraceCActive == StackTrace(3, TRUE, TRUE, <<FMain>>)
TraceBEmpty == StackTrace(2, FALSE, TRUE, <<>>)

\* the batches the trace source may hand to increment
BatchABC == <<TraceA, TraceB, TraceC>>
BatchAIdle == <<TraceAIdle>>
BatchCActive == <<TraceCActive>>
BatchMenu == {BatchABC, BatchAIdle, BatchCActive}

\* the traces a slice given to the aggregation alone is drawn from
TraceMenu == {TraceA, TraceB, TraceC, TraceAIdle, TraceCActive, TraceBEmpty}

(***************************************************************************)
(* Sequence helpers.                                                       *)
(***************************************************************************)
RECURSIVE Reverse(_)
Reverse(s) == IF s = <<>> THEN <<>> ELSE Append(Reverse(Tail(s)), Head(s))

SeqsUpTo(S, n) == UNION {[1 .. k -> S] : k \in 0 .. n}

IsPrefix(s, t) == Len(s) <= Len(t) /\ SubSeq(t, 1, Len(s)) = s

\* f32 quotient a as f32 / b as f32, kept exact as a numerator/denominator pair
Ratio(a, b) == [num |-> a, den |-> b]
Zero == Ratio(0, 1)
RatioEq(x, y) == x.num * y.den = y.num * x.den

(***************************************************************************)
(* FrameNode: a tree is a function from label paths to nodes; the root is  *)
(* the empty path and the children of p are the paths p \o <<label>>.      *)
(***************************************************************************)
FrameNode_new(frame) == [count |-> 0, frame |-> frame]

\* format!("{} ({}:{})", name, filename, line) / format!("{} ({})", name, filename)
FrameLabel(frame, line_numbers) ==
    LET filename == IF frame.short_filename # None
                    THEN frame.short_filename[1] ELSE frame.filename
    IN IF line_numbers /\ frame.line > 0
       THEN frame.name \o " (" \o filename \o ":" \o ToString(frame.line) \o ")"
       ELSE frame.name \o " (" \o filename \o ")"

\* format!("thread 0x{:x}", thread_id)
\* (thread ids of the model are below 10, where hex and decimal digits agree)
ThreadLabel(thread_id) == "thread 0x" \o ToString(thread_id)

\* an insert that counts a trace only at the node where it ends
RECURSIVE insert_count_at_end(_, _, _, _)
insert_count_at_end(tree, self, traces, line_numbers) ==
    IF traces # <<>>
    THEN LET frame == Head(traces)
             child == Append(self, FrameLabel(frame, line_numbers))
             t0 == IF child \in DOMAIN tree THEN tree
                   ELSE tree @@ (child :> FrameNode_new(frame))
         IN insert_count_at_end(t0, child, Tail(traces), line_numbers)
    ELSE [tree EXCEPT ![self].count = @ + 1]

\* lines 78-94
RECURSIVE insert(_, _, _, _)
insert(tree, self, traces, line_numbers) ==
    LET t1 == IF traces # <<>>
              THEN LET frame == Head(traces)
                       child == Append(self, FrameLabel(frame, line_numbers))
                       t0 == IF child \in DOMAIN tree THEN tree
                             ELSE tree @@ (child :> FrameNode_new(frame))
                   IN insert(t0, child, Tail(traces), line_numbers)
              ELSE tree
    IN [t1 EXCEPT ![self].count = @ + 1]

\* lines 104-112: the "name" field of a serialized node
serialize_name(frame, line_numbers) ==
    LET filename == IF frame.short_filename # None
                    THEN frame.short_filename[1] ELSE frame.filename
    IN IF line_numbers /\ frame.line > 0
       THEN frame.name \o " (" \o filename \o ":" \o ToString(frame.line) \o ")"
       ELSE IF filename # ""
            THEN frame.name \o " (" \o filename \o ")"
            ELSE frame.name

RootFrame == Frame("all", "", None, 0)
Root == <<>>

\* the loop body without the continue of lines 138-140
aggregate_one_any_gil(root, trace, include_lines, include_threads, include_idle, only_gil) ==
    IF ~(include_idle \/ trace.active) THEN root
    ELSE IF include_threads
         THEN LET child == <<ThreadLabel(trace.thread_id)>>
                  t0 == IF child \in DOMAIN root THEN root
                        ELSE root @@ (child :> FrameNode_new(
                                 Frame(ThreadLabel(trace.thread_id), "", None, 0)))
              IN insert(t0, child, Reverse(trace.frames), include_lines)
         ELSE insert(root, Root, Reverse(trace.frames), include_lines)

\* lines 133-153: the body of the loop over the slice
aggregate_one(root, trace, include_lines, include_threads, include_idle, only_gil) ==
    IF ~(include_idle \/ trace.active) THEN root
    ELSE IF only_gil /\ ~trace.owns_gil THEN root
    ELSE IF include_threads
         THEN LET child == <<ThreadLabel(trace.thread_id)>>
                  t0 == IF child \in DOMAIN root THEN root
                        ELSE root @@ (child :> FrameNode_new(
                                 Frame(ThreadLabel(trace.thread_id), "", None, 0)))
              IN insert(t0, child, Reverse(trace.frames), include_lines)
         ELSE insert(root, Root, Reverse(trace.frames), include_lines)

RECURSIVE aggregate_loop(_, _, _, _, _, _)
aggregate_loop(root, traces, include_lines, include_threads, include_idle, only_gil) ==
    IF traces = <<>> THEN root
    ELSE aggregate_loop(
             aggregate_one(root, Head(traces), include_lines, include_threads,
                           include_idle, only_gil),
             Tail(traces), include_lines, include_threads, include_idle, only_gil)

\* a response body: what is serialized, under the name of its kind
Body(kind, x) == kind :> x
NoBody == Body("none", 0)

aggregate_traces(traces, include_lines, include_threads, include_idle, only_gil) ==
    [status |-> 200,
     body |-> Body("tree",
                   aggregate_loop((Root :> FrameNode_new(RootFrame)), traces,
                                  include_lines, include_threads, include_idle, only_gil))]

(***************************************************************************)
(* slice::binary_search as called at http_handler lines 193 and 198.  With *)
(* several equal elements the library may return any of the matches, and   *)
(* which one depends on the toolchain the program is built with.  The two  *)
(* search loops the standard library has shipped are modelled; indices are *)
(* 0-based as in the code.                                                 *)
(***************************************************************************)
Ok(v) == [ok |-> TRUE, v |-> v]
Err(v) == [ok |-> FALSE, v |-> v]

RECURSIVE bs_halving_loop(_, _, _, _)
bs_halving_loop(s, x, base, size) ==
    IF size > 1
    THEN LET half == size \div 2
             mid == base + half
         IN bs_halving_loop(s, x, IF s[mid + 1] > x THEN base ELSE mid, size - half)
    ELSE base

binary_search_halving(s, x) ==
    IF Len(s) = 0 THEN Err(0)
    ELSE LET base == bs_halving_loop(s, x, 0, Len(s))
         IN IF s[base + 1] = x THEN Ok(base)
            ELSE Err(base + (IF s[base + 1] < x THEN 1 ELSE 0))

RECURSIVE bs_early_loop(_, _, _, _)
bs_early_loop(s, x, left, right) ==
    IF left < right
    THEN LET mid == left + ((right - left) \div 2)
         IN IF s[mid + 1] < x THEN bs_early_loop(s, x, mid + 1, right)
            ELSE IF s[mid + 1] > x THEN bs_early_loop(s, x, left, mid)
            ELSE Ok(mid)
    ELSE Err(left)

binary_search_early(s, x) == bs_early_loop(s, x, 0, Len(s))

Toolchains == {"halving", "early_return"}

binary_search(s, x, tc) ==
    IF tc = "halving" THEN binary_search_halving(s, x) ELSE binary_search_early(s, x)

\* lines 193-196: the start boundary
resolve_start(trace_ms, start_time, tc) ==
    LET r == binary_search(trace_ms, start_time, tc)
    IN IF r.ok THEN r.v ELSE IF r.v > 0 THEN r.v - 1 ELSE r.v

\* an end boundary left at the insertion point
resolve_end_insertion(trace_ms, end_time, tc) ==
    LET r == binary_search(trace_ms, end_time, tc)
    IN r.v

\* lines 198-201: the end boundary
resolve_end(trace_ms, end_time, tc) ==
    LET r == binary_search(trace_ms, end_time, tc)
    IN IF r.ok THEN r.v ELSE IF r.v > 0 THEN r.v - 1 ELSE r.v

\* the second check written end >= start
range_ok_inclusive(start, end, len) == (start < len /\ end < len) /\ end >= start

\* lines 208-209: the two assert_or_400!
range_ok(start, end, len) == (start < len /\ end < len) /\ end > start

\* line 287: the width of a statistics bucket in ms
BucketMs == 100

\* the bound check written id <= len
trace_id_ok_inclusive(id, len) == id <= len

\* line 217
trace_id_ok(id, len) == id < len

(***************************************************************************)
(* State.                                                                  *)
(***************************************************************************)
VARIABLES
    handle,        \* "live" | "dropped": the WebViewer value
    clock,         \* last elapsed time (ms) increment has read from Instant::now
    queue,         \* the mpsc channel tx -> rx
    sent,          \* history: every batch increment has sent, in order
    data,          \* the Arc<Mutex<Data>> contents: traces, trace_ms, stats
    lock,          \* holder of the Data mutex: "free", "worker" or a handler
    pc_worker,     \* position of update_data
    batch_iter,    \* the traces of the current message not yet iterated
    timestamp_ms,  \* timestamp of the current message
    current_gil, current, total, threads, thread_ids,   \* update_data locals
    toolchain,     \* which binary_search the build links
    hpc, hreq, hslice, hresp,   \* per request thread: position, request, window, response
    agg_in, agg_out,            \* aggregate_traces taken alone: arguments and result
    client                      \* history of a client issuing two range queries in turn

vars == <<handle, clock, queue, sent, data, lock, pc_worker, batch_iter, timestamp_ms,
          current_gil, current, total, threads, thread_ids, toolchain,
          hpc, hreq, hslice, hresp, agg_in, agg_out, client>>

producer_vars == <<handle, clock, queue, sent>>
worker_vars == <<pc_worker, batch_iter, timestamp_ms, current_gil, current, total,
                 threads, thread_ids>>
handler_vars == <<hpc, hreq, hslice, hresp>>
agg_vars == <<agg_in, agg_out>>

Handlers == {"h1"}

EmptyMap == [x \in {} |-> 0]

Traces(traces, ms) == [kind |-> "Traces", traces |-> traces, timestamp_ms |-> ms]
Terminate == [kind |-> "Terminate", traces |-> <<>>, timestamp_ms |-> 0]

Flags(include_lines, include_threads, include_idle, gil_only) ==
    [include_lines |-> include_lines, include_threads |-> include_threads,
     include_idle |-> include_idle, gil_only |-> gil_only]
AllFlags == {Flags(a, b, c, d) : a \in BOOLEAN, b \in BOOLEAN, c \in BOOLEAN, d \in BOOLEAN}
\* the query strings the request threads of Spec are driven with
FlagMenu == {Flags(FALSE, FALSE, FALSE, FALSE), Flags(TRUE, TRUE, TRUE, FALSE),
             Flags(FALSE, TRUE, FALSE, TRUE)}

NoFlags == Flags(FALSE, FALSE, FALSE, FALSE)
Request(route, arg1, arg2, flags) ==
    [route |-> route, arg1 |-> arg1, arg2 |-> arg2, flags |-> flags]
NoRequest == Request("none", 0, 0, NoFlags)
NoResponse == [status |-> 0, body |-> NoBody]
NoSlice == <<0, 0>>
NoAgg == [status |-> 0, body |-> NoBody]
NoClient == [phase |-> 0, t1 |-> 0, end1 |-> 0, n1 |-> 0, start2 |-> 0, n2 |-> 0]

\* WebViewer::new, lines 22-43
InitStore ==
    [traces |-> <<>>, trace_ms |-> <<>>,
     stats |-> [gil |-> <<>>, threads |-> <<>>, python_command |-> "python app.py",
                version |-> "3.7.0", running |-> TRUE, sampling_rate |-> 100]]

InitSystem ==
    /\ handle = "live"
    /\ clock = 0
    /\ queue = <<>>
    /\ sent = <<>>
    /\ data = InitStore
    /\ lock = "free"
    /\ pc_worker = "recv"
    /\ batch_iter = <<>>
    /\ timestamp_ms = 0
    /\ current_gil = 0
    /\ current = 0
    /\ total = 0
    /\ threads = EmptyMap
    /\ thread_ids = EmptyMap
    /\ toolchain \in Toolchains
    /\ hpc = [h \in Handlers |-> "idle"]
    /\ hreq = [h \in Handlers |-> NoRequest]
    /\ hslice = [h \in Handlers |-> NoSlice]
    /\ hresp = [h \in Handlers |-> NoResponse]
    /\ client = NoClient

Init ==
    /\ InitSystem
    /\ agg_in = [traces |-> <<>>, flags |-> NoFlags]
    /\ agg_out = NoAgg

(***************************************************************************)
(* The handle: increment, notify_exitted, drop.                            *)
(***************************************************************************)
\* a send that puts the message at the head of the channel
increment_lifo(max) ==
    /\ handle = "live"
    /\ Len(sent) < max
    /\ \E traces \in BatchMenu, now \in Times :
          /\ now >= clock
          /\ clock' = now
          /\ queue' = <<Traces(traces, now)>> \o queue
          /\ sent' = Append(sent, [traces |-> traces, timestamp_ms |-> now])
    /\ UNCHANGED <<handle, data, lock, worker_vars, toolchain, handler_vars, agg_vars, client>>

\* lines 46-51; max bounds the number of batches of a run
increment(max) ==
    /\ handle = "live"
    /\ Len(sent) < max
    /\ \E traces \in BatchMenu, now \in Times :
          /\ now >= clock
          /\ clock' = now
          /\ queue' = Append(queue, Traces(traces, now))
          /\ sent' = Append(sent, [traces |-> traces, timestamp_ms |-> now])
    /\ UNCHANGED <<handle, data, lock, worker_vars, toolchain, handler_vars, agg_vars, client>>

\* lines 53-55: lock, store, unlock in one statement
notify_exitted ==
    /\ handle = "live"
    /\ lock = "free"
    /\ data' = [data EXCEPT !.stats.running = FALSE]
    /\ UNCHANGED <<producer_vars, lock, worker_vars, toolchain, handler_vars, agg_vars, client>>

\* a Terminate that overtakes the batches still queued
drop_front ==
    /\ handle = "live"
    /\ handle' = "dropped"
    /\ queue' = <<Terminate>> \o queue
    /\ UNCHANGED <<clock, sent, data, lock, worker_vars, toolchain, handler_vars, agg_vars, client>>

\* lines 58-62
drop ==
    /\ handle = "live"
    /\ handle' = "dropped"
    /\ queue' = Append(queue, Terminate)
    /\ UNCHANGED <<clock, sent, data, lock, worker_vars, toolchain, handler_vars, agg_vars, client>>

(***************************************************************************)
(* update_data, lines 251-301.                                             *)
(***************************************************************************)
\* lines 259-262: rx.recv() and the match
worker_recv ==
    /\ pc_worker = "recv"
    /\ queue # <<>>
    /\ queue' = Tail(queue)
    /\ IF Head(queue).kind = "Terminate"
       THEN /\ pc_worker' = "done"
            /\ UNCHANGED <<batch_iter, timestamp_ms>>
       ELSE /\ batch_iter' = Head(queue).traces
            /\ timestamp_ms' = Head(queue).timestamp_ms
            /\ pc_worker' = IF Head(queue).traces = <<>> THEN "flush" ELSE "trace"
    /\ UNCHANGED <<handle, clock, sent, data, lock, current_gil, current, total, threads,
                   thread_ids, toolchain, handler_vars, agg_vars, client>>

\* a registration that starts the new series empty, whatever has been flushed
worker_count_no_backfill ==
    /\ pc_worker = "trace"
    /\ LET trace == Head(batch_iter)
           tid == trace.thread_id
       IN /\ current_gil' = IF trace.owns_gil THEN current_gil + 1 ELSE current_gil
          /\ threads' = IF trace.active
                        THEN IF tid \in DOMAIN threads
                             THEN [threads EXCEPT ![tid] = @ + 1]
                             ELSE threads @@ (tid :> 1)
                        ELSE threads
          /\ IF tid \in DOMAIN thread_ids
             THEN UNCHANGED <<thread_ids, data>>
             ELSE /\ lock = "free"
                  /\ thread_ids' = thread_ids @@ (tid :> Len(data.stats.threads))
                  /\ data' = [data EXCEPT !.stats.threads = Append(@, <<tid, <<>> >>)]
    /\ pc_worker' = "push"
    /\ UNCHANGED <<producer_vars, lock, batch_iter, timestamp_ms, current, total,
                   toolchain, handler_vars, agg_vars, client>>

\* lines 263-277: the counters, and the registration of a thread not seen before
\* (which locks the store for the push)
worker_count ==
    /\ pc_worker = "trace"
    /\ LET trace == Head(batch_iter)
           tid == trace.thread_id
       IN /\ current_gil' = IF trace.owns_gil THEN current_gil + 1 ELSE current_gil
          /\ threads' = IF trace.active
                        THEN IF tid \in DOMAIN threads
                             THEN [threads EXCEPT ![tid] = @ + 1]
                             ELSE threads @@ (tid :> 1)
                        ELSE threads
          /\ IF tid \in DOMAIN thread_ids
             THEN UNCHANGED <<thread_ids, data>>
             ELSE /\ lock = "free"
                  /\ thread_ids' = thread_ids @@ (tid :> Len(data.stats.threads))
                  /\ data' = [data EXCEPT !.stats.threads =
                                 Append(@, <<tid, [i \in 1 .. Len(data.stats.gil) |-> Zero]>>)]
    /\ pc_worker' = "push"
    /\ UNCHANGED <<producer_vars, lock, batch_iter, timestamp_ms, current, total,
                   toolchain, handler_vars, agg_vars, client>>

\* the trace pushed without the store locked
worker_push_trace_unlocked ==
    /\ pc_worker = "push"
    /\ data' = [data EXCEPT !.traces = Append(@, Head(batch_iter))]
    /\ pc_worker' = "push_ms"
    /\ UNCHANGED <<producer_vars, lock, batch_iter, timestamp_ms, current_gil, current, total,
                   threads, thread_ids, toolchain, handler_vars, agg_vars, client>>

\* lines 279-280: lock the store, push the trace
worker_push_trace ==
    /\ pc_worker = "push"
    /\ lock = "free"
    /\ lock' = "worker"
    /\ data' = [data EXCEPT !.traces = Append(@, Head(batch_iter))]
    /\ pc_worker' = "push_ms"
    /\ UNCHANGED <<producer_vars, batch_iter, timestamp_ms, current_gil, current, total,
                   threads, thread_ids, toolchain, handler_vars, agg_vars, client>>

\* the timestamp pushed with the guard kept past the end of the iteration
worker_push_ms_keep_guard ==
    /\ pc_worker = "push_ms"
    /\ data' = [data EXCEPT !.trace_ms = Append(@, timestamp_ms)]
    /\ batch_iter' = Tail(batch_iter)
    /\ pc_worker' = IF Tail(batch_iter) = <<>> THEN "flush" ELSE "trace"
    /\ UNCHANGED <<producer_vars, lock, timestamp_ms, current_gil, current, total,
                   threads, thread_ids, toolchain, handler_vars, agg_vars, client>>

\* lines 281-282: push the timestamp; the guard is dropped at the end of the iteration
worker_push_ms ==
    /\ pc_worker = "push_ms"
    /\ data' = [data EXCEPT !.trace_ms = Append(@, timestamp_ms)]
    /\ lock' = "free"
    /\ batch_iter' = Tail(batch_iter)
    /\ pc_worker' = IF Tail(batch_iter) = <<>> THEN "flush" ELSE "trace"
    /\ UNCHANGED <<producer_vars, timestamp_ms, current_gil, current, total,
                   threads, thread_ids, toolchain, handler_vars, agg_vars, client>>

\* a flush that writes the bucket over the last entry of each series
flush_threads_overwrite(series, counts, ids, batches) ==
    [i \in 1 .. Len(series) |->
        IF \E tid \in DOMAIN counts : ids[tid] = i - 1
        THEN LET tid == CHOOSE t \in DOMAIN counts : ids[t] = i - 1
                 old == series[i][2]
             IN <<series[i][1],
                  IF old = <<>> THEN <<Ratio(counts[tid], batches)>>
                  ELSE [old EXCEPT ![Len(old)] = Ratio(counts[tid], batches)]>>
        ELSE series[i]]

\* lines 289-293: one push per entry of the threads map
flush_threads(series, counts, ids, batches) ==
    [i \in 1 .. Len(series) |->
        IF \E tid \in DOMAIN counts : ids[tid] = i - 1
        THEN LET tid == CHOOSE t \in DOMAIN counts : ids[t] = i - 1
             IN <<series[i][1], Append(series[i][2], Ratio(counts[tid], batches))>>
        ELSE series[i]]

\* a flush that divides before the batch is counted
worker_flush_count_late ==
    /\ pc_worker = "flush"
    /\ IF total <= timestamp_ms
       THEN /\ lock = "free"
            /\ total' = total + BucketMs
            /\ data' = [data EXCEPT
                          !.stats.threads = flush_threads(@, threads, thread_ids, current),
                          !.stats.gil = Append(@, Ratio(current_gil, current))]
            /\ threads' = [tid \in DOMAIN threads |-> 0]
            /\ current_gil' = 0
            /\ current' = 0
       ELSE /\ current' = current + 1
            /\ UNCHANGED <<total, data, threads, current_gil>>
    /\ pc_worker' = "recv"
    /\ UNCHANGED <<producer_vars, lock, batch_iter, timestamp_ms, thread_ids,
                   toolchain, handler_vars, agg_vars, client>>

\* lines 283-297: count the batch; flush a bucket when the threshold is reached
worker_flush ==
    /\ pc_worker = "flush"
    /\ IF total <= timestamp_ms
       THEN /\ lock = "free"
            /\ total' = total + BucketMs
            /\ data' = [data EXCEPT
                          !.stats.threads = flush_threads(@, threads, thread_ids, current + 1),
                          !.stats.gil = Append(@, Ratio(current_gil, current + 1))]
            /\ threads' = [tid \in DOMAIN threads |-> 0]
            /\ current_gil' = 0
            /\ current' = 0
       ELSE /\ current' = current + 1
            /\ UNCHANGED <<total, data, threads, current_gil>>
    /\ pc_worker' = "recv"
    /\ UNCHANGED <<producer_vars, lock, batch_iter, timestamp_ms, thread_ids,
                   toolchain, handler_vars, agg_vars, client>>

(***************************************************************************)
(* The request threads: the closure of line 32 locks the store, calls      *)
(* http_handler with the guard, and drops the guard when the call returns. *)
(***************************************************************************)
\* the files RustEmbed finds in src/web_viewer/assets/
AssetFolder == {"index.html", "404.html", "app.js"}
RequestedFiles == {"app.js", "missing.js"}

\* lines 244-249
get_404 ==
    [status |-> 404,
     body |-> IF "404.html" \in AssetFolder THEN Body("file", "404.html")
              ELSE Body("text", "404 - not found")]

\* lines 236-242
get_asset(filename) ==
    IF filename \in AssetFolder THEN [status |-> 200, body |-> Body("file", filename)] ELSE get_404

Status400 == [status |-> 400, body |-> NoBody]

\* line 218: Response::json(&data.traces[id]); indexing a Vec outside its length
\* panics, and the request ends without a trace
Panicked == [status |-> 500, body |-> NoBody]
index_trace(traces, id) ==
    IF id + 1 \in DOMAIN traces THEN [status |-> 200, body |-> Body("trace", traces[id + 1])]
    ELSE Panicked

\* line 32: server_data.lock().unwrap(), evaluated before http_handler is entered
handler_lock(h) ==
    /\ hpc[h] = "idle"
    /\ lock = "free"
    /\ lock' = h
    /\ hpc' = [hpc EXCEPT ![h] = "route"]
    /\ UNCHANGED <<producer_vars, data, worker_vars, toolchain, hreq, hslice, hresp,
                   agg_vars, client>>

\* lines 189-209 and 216-223: the router, the boundary resolution and the checks
http_route(h) ==
    /\ hpc[h] = "route"
    /\ \/ \E filename \in RequestedFiles :
            /\ hreq' = [hreq EXCEPT ![h] = Request("assets", filename, 0, NoFlags)]
            /\ hpc' = [hpc EXCEPT ![h] = "asset"]
            /\ UNCHANGED <<hslice, hresp>>
       \/ /\ hreq' = [hreq EXCEPT ![h] = Request("index", "index.html", 0, NoFlags)]
          /\ hpc' = [hpc EXCEPT ![h] = "asset"]
          /\ UNCHANGED <<hslice, hresp>>
       \/ /\ hreq' = [hreq EXCEPT ![h] = Request("other", "", 0, NoFlags)]
          /\ hpc' = [hpc EXCEPT ![h] = "asset"]
          /\ UNCHANGED <<hslice, hresp>>
       \/ /\ hreq' = [hreq EXCEPT ![h] = Request("stats", 0, 0, NoFlags)]
          /\ hresp' = [hresp EXCEPT ![h] = [status |-> 200, body |-> Body("stats", data.stats)]]
          /\ hpc' = [hpc EXCEPT ![h] = "log"]
          /\ UNCHANGED hslice
       \/ \E start_time \in Times, end_time \in Times, flags \in FlagMenu :
            LET start == resolve_start(data.trace_ms, start_time, toolchain)
                end == resolve_end(data.trace_ms, end_time, toolchain)
            IN /\ hreq' = [hreq EXCEPT ![h] =
                              Request("aggregates", start_time, end_time, flags)]
               /\ hslice' = [hslice EXCEPT ![h] = <<start, end>>]
               /\ IF range_ok(start, end, Len(data.traces))
                  THEN /\ hpc' = [hpc EXCEPT ![h] = "aggregate"]
                       /\ UNCHANGED hresp
                  ELSE /\ hresp' = [hresp EXCEPT ![h] = Status400]
                       /\ hpc' = [hpc EXCEPT ![h] = "log"]
       \/ \E id \in 0 .. Len(data.traces) + 1 :
            /\ hreq' = [hreq EXCEPT ![h] = Request("trace", id, 0, NoFlags)]
            /\ hresp' = [hresp EXCEPT ![h] =
                            IF trace_id_ok(id, Len(data.traces))
                            THEN index_trace(data.traces, id)
                            ELSE Status400]
            /\ hpc' = [hpc EXCEPT ![h] = "log"]
            /\ UNCHANGED hslice
       \/ /\ hreq' = [hreq EXCEPT ![h] = Request("tracecount", 0, 0, NoFlags)]
          /\ hresp' = [hresp EXCEPT ![h] = [status |-> 200, body |-> Body("count", Len(data.traces))]]
          /\ hpc' = [hpc EXCEPT ![h] = "log"]
          /\ UNCHANGED hslice
    /\ UNCHANGED <<producer_vars, data, lock, worker_vars, toolchain, agg_vars, client>>

\* lines 210-214: aggregate_traces over the slice, and Response::json of the tree
http_aggregate(h) ==
    /\ hpc[h] = "aggregate"
    /\ hresp' = [hresp EXCEPT ![h] =
                    aggregate_traces(SubSeq(data.traces, hslice[h][1] + 1, hslice[h][2]),
                                     hreq[h].flags.include_lines,
                                     hreq[h].flags.include_threads,
                                     hreq[h].flags.include_idle,
                                     hreq[h].flags.gil_only)]
    /\ hpc' = [hpc EXCEPT ![h] = "log"]
    /\ UNCHANGED <<producer_vars, data, lock, worker_vars, toolchain, hreq, hslice,
                   agg_vars, client>>

\* lines 190, 221, 222: get_asset / get_404
http_asset(h) ==
    /\ hpc[h] = "asset"
    /\ hresp' = [hresp EXCEPT ![h] =
                    IF hreq[h].route = "other" THEN get_404 ELSE get_asset(hreq[h].arg1)]
    /\ hpc' = [hpc EXCEPT ![h] = "log"]
    /\ UNCHANGED <<producer_vars, data, lock, worker_vars, toolchain, hreq, hslice,
                   agg_vars, client>>

\* a request that returns with the guard of line 32 never dropped
http_log_keep_guard(h) ==
    /\ hpc[h] = "log"
    /\ hpc' = [hpc EXCEPT ![h] = "idle"]
    /\ hreq' = [hreq EXCEPT ![h] = NoRequest]
    /\ hslice' = [hslice EXCEPT ![h] = NoSlice]
    /\ hresp' = [hresp EXCEPT ![h] = NoResponse]
    /\ UNCHANGED <<producer_vars, data, lock, worker_vars, toolchain, agg_vars, client>>

\* lines 225-226 and the end of the closure of line 32: the log line is written, the
\* response returned, and only then is the guard dropped
http_log(h) ==
    /\ hpc[h] = "log"
    /\ lock' = "free"
    /\ hpc' = [hpc EXCEPT ![h] = "idle"]
    /\ hreq' = [hreq EXCEPT ![h] = NoRequest]
    /\ hslice' = [hslice EXCEPT ![h] = NoSlice]
    /\ hresp' = [hresp EXCEPT ![h] = NoResponse]
    /\ UNCHANGED <<producer_vars, data, worker_vars, toolchain, agg_vars, client>>

Next ==
    \/ increment(MaxBatches)
    \/ notify_exitted
    \/ drop
    \/ worker_recv
    \/ worker_count
    \/ worker_push_trace
    \/ worker_push_ms
    \/ worker_flush
    \/ \E h \in Handlers : handler_lock(h)
    \/ \E h \in Handlers : http_route(h)
    \/ \E h \in Handlers : http_aggregate(h)
    \/ \E h \in Handlers : http_asset(h)
    \/ \E h \in Handlers : http_log(h)

Spec == Init /\ [][Next]_vars

(***************************************************************************)
(* aggregate_traces taken alone: the slice and the four filters are drawn  *)
(* in the initial state and the function is applied to them.               *)
(***************************************************************************)
InitAgg ==
    /\ InitSystem
    /\ agg_in \in [traces : SeqsUpTo(TraceMenu, MaxSlice), flags : AllFlags]
    /\ agg_out = NoAgg

aggregate ==
    /\ agg_out = NoAgg
    /\ agg_out' = aggregate_traces(agg_in.traces, agg_in.flags.include_lines,
                                   agg_in.flags.include_threads,
                                   agg_in.flags.include_idle, agg_in.flags.gil_only)
    /\ UNCHANGED <<producer_vars, data, lock, worker_vars, toolchain, handler_vars,
                   agg_in, client>>

NextAgg == aggregate

SpecAgg == InitAgg /\ [][NextAgg]_vars

(***************************************************************************)
(* A client issuing range queries one after the other while the worker     *)
(* ingests.  The guard of line 32 is held from before http_handler is      *)
(* entered until it has returned, so one request is one step here; the     *)
(* client keeps the boundary indices of its last two accepted queries.     *)
(***************************************************************************)
ClientRecord(phase, t1, end1, n1, start2, n2) ==
    [phase |-> phase, t1 |-> t1, end1 |-> end1, n1 |-> n1, start2 |-> start2, n2 |-> n2]

\* lines 32 and 192-215, with the window each accepted request resolved (an accepted
\* window has start < end, and so start_time < end_time)
range_query ==
    /\ lock = "free"
    /\ client.phase < 2
    /\ \E start_time \in Times, end_time \in Times :
          LET start == resolve_start(data.trace_ms, start_time, toolchain)
              end == resolve_end(data.trace_ms, end_time, toolchain)
              n == Len(data.trace_ms)
          IN IF range_ok(start, end, Len(data.traces))
             THEN client' = IF client.phase = 1 /\ start_time = client.t1
                            THEN ClientRecord(2, client.t1, client.end1, client.n1, start, n)
                            ELSE ClientRecord(1, end_time, end, n, 0, 0)
             ELSE UNCHANGED client
    /\ UNCHANGED <<producer_vars, data, lock, worker_vars, toolchain, handler_vars, agg_vars>>

NextQuery ==
    \/ increment(MaxQueryBatches)
    \/ worker_recv
    \/ worker_count
    \/ worker_push_trace
    \/ worker_push_ms
    \/ worker_flush
    \/ range_query

SpecQuery == Init /\ [][NextQuery]_vars

(***************************************************************************)
(* Properties.                                                             *)
(***************************************************************************)
NonDecreasing(s) == \A i \in 1 .. Len(s) - 1 : s[i] <= s[i + 1]

\* the submitted traces, each paired with the timestamp of its batch, in order
RECURSIVE Flatten(_)
Flatten(batches) ==
    IF batches = <<>> THEN <<>>
    ELSE [i \in 1 .. Len(Head(batches).traces) |->
             <<Head(batches).traces[i], Head(batches).timestamp_ms>>]
         \o Flatten(Tail(batches))

Registered(tid) == \E i \in 1 .. Len(data.stats.threads) : data.stats.threads[i][1] = tid
SeriesOf(tid) ==
    data.stats.threads[CHOOSE i \in 1 .. Len(data.stats.threads) :
                           data.stats.threads[i][1] = tid][2]

\* every queued batch has been received and its loop has run to the end
Drained ==
    /\ \A i \in 1 .. Len(queue) : queue[i].kind # "Traces"
    /\ pc_worker \in {"recv", "done"}

\* 0-based index of the latest sample stamped at or before t, 0 when there is none
LastAtOrBefore(ms, t) ==
    LET S == {i \in 1 .. Len(ms) : ms[i] <= t}
    IN IF S = {} THEN 0 ELSE (CHOOSE i \in S : \A j \in S : j <= i) - 1

Passes(trace, flags) ==
    (flags.include_idle \/ trace.active) /\ (~flags.gil_only \/ trace.owns_gil)

\* C1: whenever the store lock is free, every per-thread series of the statistics
\* is as long as the global GIL series.
C1_SeriesLengthsAgree ==
    lock = "free" =>
        \A i \in 1 .. Len(data.stats.threads) :
            Len(data.stats.threads[i][2]) = Len(data.stats.gil)

\* C2: after Batch([A active+gil, B active, C idle], 50) and Batch([A idle], 150) have
\* been processed from an empty store, exactly one bucket has been flushed: the GIL
\* series and the series of A, B and C hold one entry each, A = 1.0, B = 1.0,
\* C = 0.0 and the GIL entry is the first bucket's gil_count / batches (1 / 1).
C2_EndToEnd ==
    ( /\ sent = <<[traces |-> BatchABC, timestamp_ms |-> 50],
                  [traces |-> BatchAIdle, timestamp_ms |-> 150]>>
      /\ Drained )
    => /\ Len(data.stats.gil) = 1
       /\ \A tid \in {1, 2, 3} : Registered(tid) /\ Len(SeriesOf(tid)) = 1
       /\ RatioEq(SeriesOf(1)[1], Ratio(1, 1))
       /\ RatioEq(SeriesOf(2)[1], Ratio(1, 1))
       /\ RatioEq(SeriesOf(3)[1], Ratio(0, 1))
       /\ RatioEq(data.stats.gil[1], Ratio(1, 1))

\* C3: the count of the root node "all" equals the number of traces of the slice
\* that pass the idle and GIL filters, whatever the four filters are.
C3_RootCountsMergedTraces ==
    agg_out.status = 200 =>
        agg_out.body.tree[Root].count =
            Cardinality({i \in 1 .. Len(agg_in.traces) :
                            Passes(agg_in.traces[i], agg_in.flags)})

\* C4: while a request thread holds the store lock, traces and trace_ms have the
\* same length and trace_ms is non-decreasing.
C4_ReaderSeesPairs ==
    \A h \in Handlers :
        lock = h => /\ Len(data.traces) = Len(data.trace_ms)
                    /\ NonDecreasing(data.trace_ms)

C4_Witness ==
    \E h \in Handlers :
        /\ lock = h
        /\ pc_worker = "push"
        /\ Len(data.traces) >= 2
        /\ data.trace_ms[1] < data.trace_ms[Len(data.trace_ms)]

\* C5: the stored traces and timestamps are at all times a prefix of the submitted
\* traces in submission order, each with its batch's timestamp, and once every
\* queued batch has been consumed the store holds exactly all of them.
C5_LogIsPrefixOfSent ==
    LET flat == Flatten(sent)
    IN /\ IsPrefix(data.traces, [i \in 1 .. Len(flat) |-> flat[i][1]])
       /\ IsPrefix(data.trace_ms, [i \in 1 .. Len(flat) |-> flat[i][2]])
       /\ Drained => Len(data.traces) = Len(flat) /\ Len(data.trace_ms) = Len(flat)

C5_Witness ==
    /\ Drained
    /\ Len(sent) >= 2
    /\ Len(data.traces) >= 4
    /\ sent[1].traces # sent[2].traces

\* C6: a request thread never holds the store lock while it aggregates, serves an
\* asset or the 404 page, or writes its log line.
C6_LockOnlyWhileReading ==
    \A h \in Handlers : hpc[h] \in {"aggregate", "asset", "log"} => lock # h

\* C7: Terminate is queued behind every batch; when the worker has returned every
\* submitted trace is in the store, and from then on the store is not written.
C7_ShutdownOrdering ==
    /\ [](/\ \A i \in 1 .. Len(queue) : queue[i].kind = "Terminate" => i = Len(queue)
          /\ pc_worker = "done" =>
                /\ Len(data.traces) = Len(Flatten(sent))
                /\ \A i \in 1 .. Len(data.traces) :
                      <<data.traces[i], data.trace_ms[i]>> = Flatten(sent)[i])
    /\ [][pc_worker = "done" => data' = data]_vars

C7_Witness ==
    /\ pc_worker = "done"
    /\ Len(sent) >= 2
    /\ Len(data.traces) >= 2

\* C8: over a non-empty timestamp index each boundary of a range query resolves to
\* the index of the latest sample stamped at or before the requested time (0 when
\* the time is below the first sample), also when consecutive samples share a stamp.
C8_ResolvesLatestAtOrBefore ==
    \A h \in Handlers :
        (hreq[h].route = "aggregates" /\ data.trace_ms # <<>>) =>
            /\ hslice[h][1] = LastAtOrBefore(data.trace_ms, hreq[h].arg1)
            /\ hslice[h][2] = LastAtOrBefore(data.trace_ms, hreq[h].arg2)

StrictBatchTimes ==
    \A i \in 1 .. Len(sent) - 1 : sent[i].timestamp_ms < sent[i + 1].timestamp_ms

\* C9 as stated: for successive accepted queries (t0, t1) and (t1, t2) over batches
\* with strictly increasing times, the end index of the first equals the start
\* index of the second, whatever the worker appends between the two.  It is taken
\* for a boundary t1 that is no stored stamp, where the index resolved does not
\* depend on which of several equal matches binary_search returns.
C9_WindowsMeet ==
    ( /\ client.phase = 2
      /\ StrictBatchTimes
      /\ \A i \in 1 .. Len(data.trace_ms) : data.trace_ms[i] # client.t1 )
    => client.end1 = client.start2

\* C9 amended: for successive accepted queries (t0, t1) and (t1, t2) between which
\* nothing is appended to the store, the end index of the first equals the start
\* index of the second.
C9_WindowsMeetOnSameLog ==
    (client.phase = 2 /\ client.n1 = client.n2) => client.end1 = client.start2

C9_Witness ==
    /\ client.phase = 2
    /\ client.n1 = client.n2
    /\ client.n1 >= 2
    /\ client.end1 > 0

\* C10: a range query is answered 400 exactly when a resolved index is not an index
\* of the trace log or end <= start, and otherwise with the aggregation of the
\* slice [start, end); a zero-width range and any range on an empty store are 400.
C10_RangeValidation ==
    \A h \in Handlers :
        (hreq[h].route = "aggregates" /\ hpc[h] = "log") =>
            LET start == hslice[h][1]
                end == hslice[h][2]
                n == Len(data.traces)
                flags == hreq[h].flags
            IN /\ hresp[h].status = 400 <=>
                      (start \notin 0 .. n - 1 \/ end \notin 0 .. n - 1 \/ end <= start)
               /\ hresp[h].status # 400 =>
                      /\ hresp[h].status = 200
                      /\ hresp[h].body.tree =
                            aggregate_loop((Root :> FrameNode_new(RootFrame)),
                                           [i \in 1 .. end - start |-> data.traces[start + i]],
                                           flags.include_lines, flags.include_threads,
                                           flags.include_idle, flags.gil_only)
               /\ hreq[h].arg1 = hreq[h].arg2 => hresp[h].status = 400
               /\ n = 0 => hresp[h].status = 400

C10_Witness ==
    \E h \in Handlers :
        /\ hreq[h].route = "aggregates"
        /\ hpc[h] = "log"
        /\ hresp[h].status = 200
        /\ hslice[h][2] - hslice[h][1] >= 2
        /\ hresp[h].body.tree[Root].count >= 2

\* C11: GET /trace/{id} answers with the stored trace at position id when
\* id < trace count and with 400 when id >= trace count (id = trace count included);
\* whatever the worker is doing, the handler never reads outside the trace log.
C11_TraceByIndex ==
    \A h \in Handlers :
        (hreq[h].route = "trace" /\ hpc[h] = "log") =>
            LET id == hreq[h].arg1
            IN /\ id < Len(data.traces) =>
                    hresp[h] = [status |-> 200, body |-> Body("trace", data.traces[id + 1])]
               /\ id >= Len(data.traces) => hresp[h] = Status400
               /\ hresp[h] # Panicked

\* the request asks for the very position the worker is waiting to append at
C11_Witness ==
    \E h \in Handlers :
        /\ hreq[h].route = "trace" /\ hpc[h] = "log"
        /\ Len(data.traces) >= 1
        /\ hreq[h].arg1 = Len(data.traces)
        /\ hresp[h] = Status400
        /\ pc_worker = "push"

\* the children of node p of a tree, and the sum of the counts of a set of nodes
Children(tree, p) ==
    {q \in DOMAIN tree : Len(q) = Len(p) + 1 /\ SubSeq(q, 1, Len(p)) = p}

RECURSIVE SumCounts(_, _)
SumCounts(tree, S) ==
    IF S = {} THEN 0
    ELSE LET p == CHOOSE q \in S : TRUE
         IN tree[p].count + SumCounts(tree, S \ {p})

\* slice s without its i-th trace, and the traces of s that pass the filters
Without(s, i) == [j \in 1 .. Len(s) - 1 |-> IF j < i THEN s[j] ELSE s[j + 1]]
Passing(s, flags) == SelectSeq(s, LAMBDA t : Passes(t, flags))

TreeOf(s, flags) ==
    aggregate_loop((Root :> FrameNode_new(RootFrame)), s, flags.include_lines,
                   flags.include_threads, flags.include_idle, flags.gil_only)

\* the number of traces a tree has taken in: what the insertions were made into is
\* the root, or with include_threads the thread nodes below it
Merged(tree, flags) ==
    IF flags.include_threads THEN SumCounts(tree, Children(tree, Root))
    ELSE tree[Root].count

\* C12: a trace of the slice contributes to the tree iff (include_idle or active) and
\* (not gil_only or owns_gil): taking it out of the slice changes the tree exactly
\* when it passes, the tree is the tree of the passing traces alone with both filters
\* open, and the tree has taken in as many traces as pass; with gil_only the traces
\* that do not own the GIL, and without include_idle the inactive ones, could as well
\* be absent from the slice.
C12_FilterSemantics ==
    agg_out.status = 200 =>
        LET s == agg_in.traces
            flags == agg_in.flags
            open == [flags EXCEPT !.include_idle = TRUE, !.gil_only = FALSE]
        IN /\ \A i \in 1 .. Len(s) :
                 (TreeOf(Without(s, i), flags) # agg_out.body.tree) <=> Passes(s[i], flags)
           /\ agg_out.body.tree = TreeOf(Passing(s, flags), open)
           /\ Merged(agg_out.body.tree, flags) = Len(Passing(s, flags))
           /\ flags.gil_only =>
                 agg_out.body.tree = TreeOf(SelectSeq(s, LAMBDA t : t.owns_gil), flags)
           /\ ~flags.include_idle =>
                 agg_out.body.tree = TreeOf(SelectSeq(s, LAMBDA t : t.active), flags)

\* a slice with a trace that passes, one dropped for the GIL and one dropped as idle
C12_Witness ==
    /\ agg_out.status = 200
    /\ agg_in.flags.gil_only /\ ~agg_in.flags.include_idle
    /\ agg_in.traces = <<TraceB, TraceA, TraceC>>
    /\ Merged(agg_out.body.tree, agg_in.flags) = 1

\* every ordering of a slice
Perms(s) ==
    {[i \in 1 .. Len(s) |-> s[f[i]]] :
        f \in {g \in [1 .. Len(s) -> 1 .. Len(s)] :
                  \A i, j \in 1 .. Len(s) : g[i] = g[j] => i = j}}

\* what a client sees of a tree: per node its label and its count, the nodes
\* arranged by their paths
View(tree, line_numbers) ==
    [p \in DOMAIN tree |->
        [name |-> serialize_name(tree[p].frame, line_numbers), value |-> tree[p].count]]

PermutationsAgree ==
    \A t \in Perms(agg_in.traces) :
        View(TreeOf(t, agg_in.flags), agg_in.flags.include_lines)
            = View(agg_out.body.tree, agg_in.flags.include_lines)

IdenticalTracesOnePath ==
    LET m == Passing(agg_in.traces, agg_in.flags)
        k == Len(m)
    IN (k >= 1 /\ \A i \in 1 .. k : m[i].frames = m[1].frames) =>
           /\ \A p \in DOMAIN agg_out.body.tree : Cardinality(Children(agg_out.body.tree, p)) <= 1
           /\ \A p \in DOMAIN agg_out.body.tree : agg_out.body.tree[p].count = k

\* C13: every permutation of the slice yields a tree with the same node labels, the
\* same parent/child shape and the same count at every node, under every setting of
\* the flags; and merging k traces with identical frame sequences yields a
\* single-path tree in which every node of the path, leaf included, has count k.
C13_OrderIndependent ==
    agg_out.status = 200 => PermutationsAgree /\ IdenticalTracesOnePath

\* the number of submitted batches the worker has received
Processed == Len(sent) - Cardinality({i \in 1 .. Len(queue) : queue[i].kind = "Traces"})

\* C14: the flush threshold is always 100 times the number of flushes, and once the
\* worker has finished a batch stamped t every 100 ms bucket t has reached has been
\* flushed, that is the threshold is greater than t, whatever the gaps between the
\* batch timestamps are.
C14_OneFlushPerBucket ==
    /\ total = BucketMs * Len(data.stats.gil)
    /\ (pc_worker \in {"recv", "done"} /\ Processed >= 1) => total > timestamp_ms

\* C15: a value once appended to the GIL series or to a thread's series is never
\* changed or removed: over every step (batch, flush, registration, notify_exitted,
\* request) each series keeps what it held as a prefix, and so does at any later time.
C15_HistoryIsImmutable ==
    [][ /\ IsPrefix(data.stats.gil, data'.stats.gil)
        /\ Len(data.stats.threads) <= Len(data'.stats.threads)
        /\ \A i \in 1 .. Len(data.stats.threads) :
              /\ data'.stats.threads[i][1] = data.stats.threads[i][1]
              /\ IsPrefix(data.stats.threads[i][2], data'.stats.threads[i][2]) ]_vars

\* two buckets flushed with different values, the program marked exited, and a
\* request reading the statistics
C15_Witness ==
    /\ Len(data.stats.gil) >= 2
    /\ ~RatioEq(data.stats.gil[1], data.stats.gil[2])
    /\ \E i \in 1 .. Len(data.stats.threads) :
          /\ Len(data.stats.threads[i][2]) >= 2
          /\ ~RatioEq(data.stats.threads[i][2][1], data.stats.threads[i][2][2])
    /\ ~data.stats.running
    /\ \E h \in Handlers : hreq[h].route = "stats" /\ hpc[h] = "log"

(***************************************************************************)
(* The system under fair scheduling: the worker thread keeps running, a    *)
(* lock() call that finds the mutex free again and again gets it, and a    *)
(* request thread that has entered its closure runs it to the end.         *)
(***************************************************************************)
handler_step(h) == http_route(h) \/ http_aggregate(h) \/ http_asset(h) \/ http_log(h)

Fairness ==
    /\ WF_vars(worker_recv)
    /\ SF_vars(worker_count)
    /\ SF_vars(worker_push_trace)
    /\ WF_vars(worker_push_ms)
    /\ SF_vars(worker_flush)
    /\ \A h \in Handlers : WF_vars(handler_step(h))

\* the whole system as in Next, with its own bound on the batches submitted
NextLive ==
    \/ increment(MaxLiveBatches)
    \/ notify_exitted
    \/ drop
    \/ worker_recv
    \/ worker_count
    \/ worker_push_trace
    \/ worker_push_ms
    \/ worker_flush
    \/ \E h \in Handlers : handler_lock(h)
    \/ \E h \in Handlers : handler_step(h)

SpecLive == Init /\ [][NextLive]_vars /\ Fairness

\* the most traces a run of SpecLive can submit (the longest batch holds 3)
MaxSent == MaxLiveBatches * 3

\* whoever holds the store lock has a step to take that leads to its release
HolderCanRun ==
    /\ lock = "worker" => ENABLED worker_push_ms
    /\ \A h \in Handlers : lock = h => ENABLED handler_step(h)

C17_QueriesAreReadOnly ==
    /\ [](\A h \in Handlers :
            /\ hpc[h] = "log" => hresp[h].status \in {200, 400, 404}
            /\ hpc[h] = "idle" => lock # h)
    /\ [][hpc' # hpc => UNCHANGED <<data, worker_vars, producer_vars>>]_vars

\* a request answered 404 while the worker is in the middle of a batch, with a
\* further batch queued behind it
C17_Witness ==
    \E h \in Handlers :
        /\ hpc[h] = "log"
        /\ hresp[h].status = 404
        /\ pc_worker = "push"
        /\ Len(data.traces) >= 1
        /\ queue # <<>> /\ Head(queue).kind = "Traces"

\* every batch holds at most one trace per thread id and at most one that owns the GIL
OnePerThread(batches) ==
    \A b \in 1 .. Len(batches) :
        LET ts == batches[b].traces
        IN /\ \A i, j \in 1 .. Len(ts) : ts[i].thread_id = ts[j].thread_id => i = j
           /\ Cardinality({i \in 1 .. Len(ts) : ts[i].owns_gil}) <= 1

InUnit(r) == r.den >= 1 /\ 0 <= r.num /\ r.num <= r.den

\* C18: every flushed value is a quotient by a batch count of at least 1 and, with
\* at most one trace per thread id and one GIL owner per batch, has
\* 0 <= numerator <= batch count, so every fraction lies in [0, 1]; right after a
\* flush the GIL counter, every per-thread counter and the batch counter are 0.
C18_FlushedFractions ==
    /\ [](OnePerThread(sent) =>
            /\ \A i \in 1 .. Len(data.stats.gil) : InUnit(data.stats.gil[i])
            /\ \A t \in 1 .. Len(data.stats.threads) :
                  \A i \in 1 .. Len(data.stats.threads[t][2]) :
                      InUnit(data.stats.threads[t][2][i]))
    /\ [][Len(data'.stats.gil) > Len(data.stats.gil) =>
             /\ current_gil' = 0
             /\ current' = 0
             /\ \A tid \in DOMAIN threads' : threads'[tid] = 0]_vars

\* a bucket of two batches flushed: the GIL held in one of the two, a thread active
\* in one of the two
C18_Witness ==
    /\ \E i \in 1 .. Len(data.stats.gil) :
          data.stats.gil[i].den = 2 /\ data.stats.gil[i].num = 1
    /\ \E t \in 1 .. Len(data.stats.threads) :
          \E i \in 1 .. Len(data.stats.threads[t][2]) :
              data.stats.threads[t][2][i].den = 2 /\ data.stats.threads[t][2][i].num = 1
    /\ current = 0 /\ current_gil = 0
    /\ pc_worker = "recv"

\* the label path of a trace, outermost first, below the thread node if there is one
PathOf(trace, flags) ==
    (IF flags.include_threads THEN <<ThreadLabel(trace.thread_id)>> ELSE <<>>)
    \o [i \in 1 .. Len(trace.frames) |->
           FrameLabel(Reverse(trace.frames)[i], flags.include_lines)]

\* C19: in the tree of the flame aggregation every node other than the root "all"
\* (thread nodes and frame nodes) has a count equal to the number of merged traces
\* whose label path passes through it, which is the sum of its children's counts
\* plus the number of merged traces whose path ends at it; the labels of siblings
\* are unique.
C19_CountConservation ==
    agg_out.status = 200 =>
        LET tree == agg_out.body.tree
            m == Passing(agg_in.traces, agg_in.flags)
            Through(p) == {i \in 1 .. Len(m) : IsPrefix(p, PathOf(m[i], agg_in.flags))}
            Ending(p) == {i \in 1 .. Len(m) : PathOf(m[i], agg_in.flags) = p}
            v == View(tree, agg_in.flags.include_lines)
        IN /\ \A p \in DOMAIN tree \ {Root} :
                 /\ tree[p].count = Cardinality(Through(p))
                 /\ tree[p].count = SumCounts(tree, Children(tree, p)) + Cardinality(Ending(p))
           /\ \A i \in 1 .. Len(m) : PathOf(m[i], agg_in.flags) \in DOMAIN tree
           /\ \A p \in DOMAIN tree :
                 \A q, r \in Children(tree, p) : v[q].name = v[r].name => q = r

\* a node with two children at which a further trace ends
C19_Witness ==
    /\ agg_out.status = 200
    /\ \E p \in DOMAIN agg_out.body.tree \ {Root} :
          /\ Cardinality(Children(agg_out.body.tree, p)) = 2
          /\ agg_out.body.tree[p].count = 3
          /\ SumCounts(agg_out.body.tree, Children(agg_out.body.tree, p)) = 2

\* C20: the first time the worker sees a thread id, active or idle, it adds exactly
\* one series for it, back-filled with zeros to the length the GIL series has at
\* that moment; no thread id is registered twice, registered series are never
\* removed or reordered, and thread_ids always points at the series carrying the id.
C20_ThreadRegistration ==
    /\ [](/\ \A i, j \in 1 .. Len(data.stats.threads) :
                data.stats.threads[i][1] = data.stats.threads[j][1] => i = j
          /\ DOMAIN thread_ids =
                {data.stats.threads[i][1] : i \in 1 .. Len(data.stats.threads)}
          /\ \A tid \in DOMAIN thread_ids :
                data.stats.threads[thread_ids[tid] + 1][1] = tid
          /\ \A i \in 1 .. Len(data.traces) :
                data.traces[i].thread_id \in DOMAIN thread_ids)
    /\ [][/\ Len(data.stats.threads) <= Len(data'.stats.threads)
          /\ \A i \in 1 .. Len(data.stats.threads) :
                data'.stats.threads[i][1] = data.stats.threads[i][1]
          /\ (pc_worker = "trace" /\ pc_worker' = "push") =>
                IF Head(batch_iter).thread_id \in DOMAIN thread_ids
                THEN data'.stats.threads = data.stats.threads /\ thread_ids' = thread_ids
                ELSE data'.stats.threads =
                        Append(data.stats.threads,
                               <<Head(batch_iter).thread_id,
                                 [k \in 1 .. Len(data.stats.gil) |-> Zero]>>)
          /\ ~(pc_worker = "trace" /\ pc_worker' = "push") =>
                Len(data'.stats.threads) = Len(data.stats.threads)]_vars

\* a thread first seen after a bucket was flushed, just registered behind another
\* thread with one zero of back-fill
C20_Witness ==
    /\ pc_worker = "push"
    /\ Len(data.stats.gil) = 1
    /\ Len(data.stats.threads) = 2
    /\ data.stats.threads[2] = <<Head(batch_iter).thread_id, <<Zero>> >>
    /\ thread_ids[Head(batch_iter).thread_id] = 1

====
